---- MODULE Spec2Model ----
(***************************************************************************)
(* Model of mathesar_ui/src/stores/schemas.ts: the reactive cache of the   *)
(* schemas of the current database, the list fetch that refreshes it, the  *)
(* create / delete operations that patch it, and the `schemas` derived     *)
(* store that reacts to changes of the current database.                   *)
(*                                                                         *)
(* The RPC server is modelled as the schemas of every database. A list     *)
(* call is sent, answered by the server from its state at that moment, and *)
(* its response is delivered later; an add or delete call is applied by    *)
(* the server and its response is delivered later. The derived store runs  *)
(* its callback only while it has a subscriber.                            *)
(***************************************************************************)
EXTENDS Integers, Sequences, FiniteSets, TLC

\* ---------------------------------------------------------------- bounds
\* add / delete calls in flight at the same time
MaxCalls == 1
\* largest oid the server assigns
MaxOid == 2

Databases == {1, 2}
Oids == 1..MaxOid
Names == {"a"}
Errors == {[message |-> "e1"]}

\* `undefined`: no current database, no databaseId
Undefined == 0

VARIABLES
  currentDatabase,   \* value of databasesStore.currentDatabase (a database id)
  schemasStore,      \* value of the writable schemasStore
  request,           \* module variable `request`: index in listRequests, or 0
                     \* when it is unset or can no longer settle
  listRequests,      \* the list calls that can still settle, oldest first
  preload,           \* module variable `preload`
  commonData,        \* preloadCommonData(): current_database and schemas
  subscribed,        \* whether the `schemas` store has a subscriber
  server,            \* server side: database id -> (oid -> name)
  nextOid,           \* server side: next oid to assign
  calls,             \* add / delete calls whose response is not delivered yet
  ev,                \* the last step taken and its outcome
  rt,                \* progress of a create-then-delete round trip
  currentSchemaId,   \* value of the writable currentSchemaId (an oid)
  currentSchema      \* value of the derived store currentSchema

vars == <<currentDatabase, schemasStore, request, listRequests, preload,
          commonData, subscribed, server, nextOid, calls, ev, rt,
          currentSchemaId, currentSchema>>

\* ------------------------------------------------------------ Map helpers
EmptyMap == [x \in {} |-> x]

MapSet(m, k, v) == [x \in (DOMAIN m) \cup {k} |-> IF x = k THEN v ELSE m[x]]

MapDelete(m, k) == [x \in (DOMAIN m) \ {k} |-> m[x]]

Range(f) == {f[x] : x \in DOMAIN f}

Min(S) == CHOOSE x \in S : \A y \in S : x <= y

RemoveAt(seq, k) == [i \in 1..(Len(seq) - 1) |-> IF i < k THEN seq[i] ELSE seq[i + 1]]

\* the index of element r of seq once element k # r is removed
IndexAfterRemove(r, k) == IF r > k THEN r - 1 ELSE r

\* ------------------------------------------------------------ the client
Success == [state |-> "success", errors |-> <<>>]
Processing == [state |-> "processing", errors |-> <<>>]
Failure(errors) == [state |-> "failure", errors |-> errors]

getErrorMessage(err) == err.message

\* new Schema({ database, rawSchema })
Schema(database, rawSchema) ==
  [oid |-> rawSchema.oid, database |-> database, name |-> rawSchema.name]

makeEmptySchemasData ==
  [databaseId |-> Undefined, requestStatus |-> Success, data |-> EmptyMap]

\* the forEach of setSchemasInStore: later records overwrite earlier ones
RECURSIVE schemasMap(_, _, _)
schemasMap(database, rawSchemas, n) ==
  IF n = 0 THEN EmptyMap
  ELSE MapSet(schemasMap(database, rawSchemas, n - 1),
              rawSchemas[n].oid, Schema(database, rawSchemas[n]))

\* mutant: the fetched records are merged into the entries already cached
setSchemasInStore_merge(database, rawSchemas) ==
  [databaseId |-> database,
   requestStatus |-> Success,
   data |-> LET new == schemasMap(database, rawSchemas, Len(rawSchemas)) IN
            [o \in (DOMAIN schemasStore.data) \cup (DOMAIN new) |->
               IF o \in DOMAIN new THEN new[o] ELSE schemasStore.data[o]]]

setSchemasInStore(database, rawSchemas) ==
  [databaseId |-> database,
   requestStatus |-> Success,
   data |-> schemasMap(database, rawSchemas, Len(rawSchemas))]

\* mutant: the insert also marks the cache as successfully loaded
updateSchemaInStore_success(store, database, schema) ==
  IF store.databaseId = database
  THEN [store EXCEPT !.data = MapSet(store.data, schema.oid, schema),
                     !.requestStatus = Success]
  ELSE store

\* mutant: the insert does not check the database of the cache
updateSchemaInStore_unguarded(store, database, schema) ==
  [store EXCEPT !.data = MapSet(store.data, schema.oid, schema)]

updateSchemaInStore(store, database, schema) ==
  IF store.databaseId = database
  THEN [store EXCEPT !.data = MapSet(store.data, schema.oid, schema)]
  ELSE store

\* mutant: the removal does not check the database of the cache
removeSchemaInStore_unguarded(store, database, schema) ==
  [store EXCEPT !.data = MapDelete(store.data, schema.oid)]

removeSchemaInStore(store, database, schema) ==
  IF store.databaseId = database
  THEN [store EXCEPT !.data = MapDelete(store.data, schema.oid)]
  ELSE store

\* CancellablePromise.cancel(): a cancelled promise never settles, so the
\* call leaves the calls that can still settle; cancelling a promise that
\* has settled or is already cancelled changes nothing
cancel(reqs, r) ==
  IF r = 0 THEN reqs ELSE RemoveAt(reqs, r)

\* mutant: the previous request is not cancelled
fetchCancel_none(reqs, r) == reqs

\* request?.cancel() of fetchSchemasForCurrentDatabase
fetchCancel(reqs, r) == cancel(reqs, r)

\* mutant: a fetch for the database of the cache empties the cache
fetchStart_clear(store, database) ==
  [databaseId |-> database, requestStatus |-> Processing, data |-> EmptyMap]

\* mutant: the entries of the previous database are kept
fetchStart_keep(store, database) ==
  [store EXCEPT !.databaseId = database, !.requestStatus = Processing]

\* the schemasStore.update at the start of fetchSchemasForCurrentDatabase
fetchStart(store, database) ==
  IF store.databaseId = database
  THEN [store EXCEPT !.requestStatus = Processing]
  ELSE [databaseId |-> database, requestStatus |-> Processing, data |-> EmptyMap]

\* mutant: the failure always resets the cache
fetchFailure_reset(store, database, err) ==
  [databaseId |-> database,
   requestStatus |-> Failure(<<getErrorMessage(err)>>),
   data |-> EmptyMap]

\* mutant: the error of the list call is swallowed
fetchFailure_silent(store, database, err) == store

\* the schemasStore.update of the catch block
fetchFailure(store, database, err) ==
  IF store.databaseId = database
  THEN [store EXCEPT !.requestStatus = Failure(<<getErrorMessage(err)>>)]
  ELSE [databaseId |-> database,
        requestStatus |-> Failure(<<getErrorMessage(err)>>),
        data |-> EmptyMap]

\* api.schemas.list({ database_id }).run(); `stale` records that the current
\* database was switched away from `database` while the call was pending
NewRequest(database) ==
  [database |-> database, status |-> "sent", result |-> <<>>, stale |-> FALSE]

\* mutant: without a current database the cache is left as it is
fetchSchemasForCurrentDatabase_noReset(cur, reqs) ==
  IF cur = Undefined
  THEN /\ schemasStore' = schemasStore
       /\ listRequests' = fetchCancel(reqs, request)
       /\ request' = 0
  ELSE /\ schemasStore' = fetchStart(schemasStore, cur)
       /\ listRequests' = Append(fetchCancel(reqs, request), NewRequest(cur))
       /\ request' = Len(listRequests')

\* fetchSchemasForCurrentDatabase() up to its await, with `cur` the value
\* read from databasesStore.currentDatabase and `reqs` the pending list calls
fetchSchemasForCurrentDatabase(cur, reqs) ==
  IF cur = Undefined
  THEN /\ schemasStore' = makeEmptySchemasData
       /\ listRequests' = fetchCancel(reqs, request)
       /\ request' = 0
  ELSE /\ schemasStore' = fetchStart(schemasStore, cur)
       /\ listRequests' = Append(fetchCancel(reqs, request), NewRequest(cur))
       /\ request' = Len(listRequests')

\* mutant: a fetch is restarted whenever the cache of the database is not ready
derivedBranch_restart(store, cur, pre, common) ==
  IF store.databaseId # cur
  THEN IF pre /\ common.current_database = cur THEN "preload" ELSE "fetch"
  ELSE IF store.requestStatus.state # "success" THEN "refetch" ELSE "none"

\* mutant: the preloaded data is used whenever the preloaded database comes back
derivedBranch_always(store, cur, pre, common) ==
  IF store.databaseId # cur
  THEN IF common.current_database = cur THEN "preload" ELSE "fetch"
  ELSE IF store.requestStatus.state = "failure" THEN "refetch" ELSE "none"

\* which branch the callback of the derived store takes
derivedBranch(store, cur, pre, common) ==
  IF store.databaseId # cur
  THEN IF pre /\ common.current_database = cur THEN "preload" ELSE "fetch"
  ELSE IF store.requestStatus.state = "failure" THEN "refetch" ELSE "none"

\* the callback of derived(databasesStore.currentDatabase, ...)
schemasDerived(cur, reqs) ==
  LET branch == derivedBranch(schemasStore, cur, preload, commonData) IN
  /\ CASE branch = "preload" ->
            /\ schemasStore' = setSchemasInStore(cur, commonData.schemas)
            /\ listRequests' = reqs
            /\ UNCHANGED request
       [] branch \in {"fetch", "refetch"} ->
            fetchSchemasForCurrentDatabase(cur, reqs)
       [] OTHER ->
            /\ listRequests' = reqs
            /\ UNCHANGED <<schemasStore, request>>
  /\ preload' = IF branch \in {"preload", "fetch"} THEN FALSE ELSE preload
  /\ ev' = [op |-> "emit", database |-> cur, branch |-> branch,
            payload |-> [cancelled |-> branch \in {"fetch", "refetch"}
                                        /\ Len(fetchCancel(reqs, request)) < Len(reqs)],
            outcome |-> "none"]

\* ------------------------------------------------------------ the server
RECURSIVE listOf(_)
listOf(m) ==
  IF DOMAIN m = {} THEN <<>>
  ELSE LET o == Min(DOMAIN m) IN
       <<[oid |-> o, name |-> m[o]]>> \o listOf(MapDelete(m, o))

Event(op, database, payload, outcome) ==
  [op |-> op, database |-> database, branch |-> "none",
   payload |-> payload, outcome |-> outcome]

\* a step that no claim singles out: the server applies a call, a call is
\* issued, the current database changes without a subscriber
Other == Event("other", Undefined, <<>>, "none")

NoSchema == [oid |-> 0, database |-> Undefined, name |-> ""]

NoRoundTrip ==
  [phase |-> "none", before |-> makeEmptySchemasData, schema |-> NoSchema]

\* the continuation of createSchema after a successful await
createSchemaResolved(store, database, rawSchema) ==
  updateSchemaInStore(store, database, Schema(database, rawSchema))

\* mutant: the failure of the add call is recorded in the cache
createSchemaRejected_recorded(store, database, err) ==
  [store EXCEPT !.requestStatus = Failure(<<getErrorMessage(err)>>)]

\* createSchema when the awaited add call rejects: nothing catches it
createSchemaRejected(store, database, err) == store

\* the continuation of deleteSchema after a successful await
deleteSchemaResolved(store, schema) ==
  removeSchemaInStore(store, schema.database, schema)

\* deleteSchema when the awaited delete call rejects: nothing catches it
deleteSchemaRejected(store, schema, err) == store

\* --------------------------------------------------------- currentSchema
\* Map.get: the entry under `k`, NoSchema standing for undefined
MapGet(m, k) == IF k \in DOMAIN m THEN m[k] ELSE NoSchema

\* mutant: the current schema is hidden while the cache is not ready
currentSchemaDerived_ready(id, store) ==
  IF id # 0 /\ store.requestStatus.state = "success"
  THEN MapGet(store.data, id) ELSE NoSchema

\* the callback of derived([currentSchemaId, schemas], ...): a truthiness
\* test of the id, then Map.get
currentSchemaDerived(id, store) ==
  IF id # 0 THEN MapGet(store.data, id) ELSE NoSchema

\* the derived store recomputes its value when `schemas` emits a new value
\* of the cache; the step does not set currentSchemaId
currentSchemaFollows ==
  /\ currentSchemaId' = currentSchemaId
  /\ currentSchema' = IF schemasStore' # schemasStore
                      THEN currentSchemaDerived(currentSchemaId, schemasStore')
                      ELSE currentSchema

\* ------------------------------------------------------------------ Init
Init ==
  /\ currentDatabase \in Databases \cup {Undefined}
  /\ schemasStore = makeEmptySchemasData
  /\ request = 0
  /\ listRequests = <<>>
  /\ preload = TRUE
  /\ server = [x \in Databases |-> [o \in {1} |-> "a"]]
  /\ nextOid = 2
  /\ commonData = [current_database |-> 1, schemas |-> listOf(server[1])]
  /\ subscribed = FALSE
  /\ calls = {}
  /\ ev = Event("init", Undefined, <<>>, "none")
  /\ rt = NoRoundTrip
  /\ currentSchemaId = Undefined
  /\ currentSchema = currentSchemaDerived(currentSchemaId, schemasStore)

\* ------------------------------------------------- the current database
\* the current database is switched away from `old`: the list calls pending
\* for it are marked
MarkStale(reqs, old) ==
  [i \in 1..Len(reqs) |->
     IF reqs[i].database = old THEN [reqs[i] EXCEPT !.stale = TRUE] ELSE reqs[i]]

\* databasesStore.currentDatabase emits a new value; the `schemas` store
\* handles it when it has a subscriber
SetCurrentDatabase(d) ==
  /\ d # currentDatabase
  /\ currentDatabase' = d
  /\ IF subscribed
     THEN schemasDerived(d, MarkStale(listRequests, currentDatabase))
     ELSE /\ UNCHANGED <<schemasStore, request, listRequests, preload>>
          /\ ev' = Other
  /\ rt' = NoRoundTrip
  /\ UNCHANGED <<commonData, subscribed, server, nextOid, calls>>
  /\ currentSchemaFollows

\* the `schemas` store gets its first subscriber: the derived callback runs
\* with the current value
Subscribe ==
  /\ ~subscribed
  /\ subscribed' = TRUE
  /\ schemasDerived(currentDatabase, listRequests)
  /\ rt' = NoRoundTrip
  /\ UNCHANGED <<currentDatabase, commonData, server, nextOid, calls>>
  /\ currentSchemaFollows

Unsubscribe ==
  /\ subscribed
  /\ subscribed' = FALSE
  /\ ev' = Other
  /\ rt' = NoRoundTrip
  /\ UNCHANGED <<currentDatabase, schemasStore, request, listRequests, preload,
                 commonData, server, nextOid, calls>>
  /\ currentSchemaFollows

\* ------------------------------------------------------------ list fetch
\* a direct call of the exported fetchSchemasForCurrentDatabase()
Fetch ==
  /\ fetchSchemasForCurrentDatabase(currentDatabase, listRequests)
  /\ ev' = Event("fetch", currentDatabase,
                 [cancelled |-> Len(fetchCancel(listRequests, request)) < Len(listRequests)],
                 "none")
  /\ rt' = NoRoundTrip
  /\ UNCHANGED <<currentDatabase, preload, commonData, subscribed, server,
                 nextOid, calls>>
  /\ currentSchemaFollows

\* the server answers a list call
ServerList(i) ==
  /\ listRequests[i].status = "sent"
  /\ listRequests' = [listRequests EXCEPT
                        ![i].status = "ok",
                        ![i].result = listOf(server[listRequests[i].database])]
  /\ ev' = Other
  /\ UNCHANGED <<currentDatabase, schemasStore, request, preload, commonData,
                 subscribed, server, nextOid, calls, rt>>
  /\ currentSchemaFollows

\* `await request` resumes with the records: setSchemasInStore
FetchResolve(i) ==
  /\ listRequests[i].status = "ok"
  /\ schemasStore' = setSchemasInStore(listRequests[i].database, listRequests[i].result)
  /\ listRequests' = RemoveAt(listRequests, i)
  /\ request' = IF request = i THEN 0 ELSE IndexAfterRemove(request, i)
  /\ ev' = Event("fetchResolve", listRequests[i].database,
                 [req |-> i], "resolved")
  /\ rt' = NoRoundTrip
  /\ UNCHANGED <<currentDatabase, preload, commonData, subscribed,
                 server, nextOid, calls>>
  /\ currentSchemaFollows

\* `await request` throws: the catch block
FetchReject(i, err) ==
  /\ listRequests[i].status = "sent"
  /\ schemasStore' = fetchFailure(schemasStore, listRequests[i].database, err)
  /\ listRequests' = RemoveAt(listRequests, i)
  /\ request' = IF request = i THEN 0 ELSE IndexAfterRemove(request, i)
  /\ ev' = Event("fetchReject", listRequests[i].database,
                 [req |-> i, err |-> err], "resolved")
  /\ rt' = NoRoundTrip
  /\ UNCHANGED <<currentDatabase, preload, commonData, subscribed,
                 server, nextOid, calls>>
  /\ currentSchemaFollows

\* -------------------------------------------------------- create / delete
\* An add or delete call changes nothing on the client until its response
\* is delivered. The server is therefore taken to apply a call at the moment
\* it is issued, and a call that fails (it changes nothing on the server
\* either) is one step: issued and rejected.
NewCall(op, database, arg, result) ==
  [op |-> op, database |-> database, arg |-> arg, result |-> result]

\* the server adds a schema to a database under a new oid
serverAdd(srv, database, oid, name) ==
  [srv EXCEPT ![database] = MapSet(@, oid, name)]

\* the server drops a schema of a database
serverDelete(srv, database, oid) ==
  [srv EXCEPT ![database] = MapDelete(@, oid)]

\* createSchema(database, props) up to its await
CreateSchema(database, name) ==
  /\ Cardinality(calls) < MaxCalls
  /\ nextOid <= MaxOid
  /\ server' = serverAdd(server, database, nextOid, name)
  /\ nextOid' = nextOid + 1
  /\ calls' = calls \cup {NewCall("add", database, name, [oid |-> nextOid, name |-> name])}
  /\ ev' = Other
  /\ rt' = NoRoundTrip
  /\ UNCHANGED <<currentDatabase, schemasStore, request, listRequests, preload,
                 commonData, subscribed>>
  /\ currentSchemaFollows

\* the add call has succeeded: the rest of createSchema
CreateResolve(call) ==
  /\ call.op = "add"
  /\ schemasStore' = createSchemaResolved(schemasStore, call.database, call.result)
  /\ calls' = calls \ {call}
  /\ ev' = Event("createResolve", call.database,
                 [schema |-> Schema(call.database, call.result)], "resolved")
  /\ rt' = IF call.result.oid \notin DOMAIN schemasStore.data
           THEN [phase |-> "created", before |-> schemasStore,
                 schema |-> Schema(call.database, call.result)]
           ELSE NoRoundTrip
  /\ UNCHANGED <<currentDatabase, request, listRequests, preload, commonData,
                 subscribed, server, nextOid>>
  /\ currentSchemaFollows

\* createSchema(database, props) whose add call fails: createSchema rejects
CreateReject(database, name, err) ==
  /\ Cardinality(calls) < MaxCalls
  /\ schemasStore' = createSchemaRejected(schemasStore, database, err)
  /\ ev' = Event("createReject", database, <<>>, "rejected")
  /\ rt' = NoRoundTrip
  /\ UNCHANGED <<currentDatabase, request, listRequests, preload, commonData,
                 subscribed, server, nextOid, calls>>
  /\ currentSchemaFollows

\* the Schema objects a caller can hold: the cache entries and the schemas
\* that exist on the server
KnownSchemas ==
  Range(schemasStore.data) \cup
  {Schema(x[1], [oid |-> x[2], name |-> server[x[1]][x[2]]]) :
     x \in {y \in Databases \X Oids : y[2] \in DOMAIN server[y[1]]}}

\* deleteSchema(schema) up to its await; deleting a schema that does not
\* exist is an error
DeleteSchema(schema) ==
  /\ Cardinality(calls) < MaxCalls
  /\ schema.oid \in DOMAIN server[schema.database]
  /\ server' = serverDelete(server, schema.database, schema.oid)
  /\ calls' = calls \cup {NewCall("delete", schema.database, schema, <<>>)}
  /\ ev' = Other
  /\ rt' = IF rt.phase = "created" /\ rt.schema = schema
           THEN [rt EXCEPT !.phase = "deleting"]
           ELSE NoRoundTrip
  /\ UNCHANGED <<currentDatabase, schemasStore, request, listRequests, preload,
                 commonData, subscribed, nextOid>>
  /\ currentSchemaFollows

\* the delete call has succeeded: the rest of deleteSchema
DeleteResolve(call) ==
  /\ call.op = "delete"
  /\ schemasStore' = deleteSchemaResolved(schemasStore, call.arg)
  /\ calls' = calls \ {call}
  /\ ev' = Event("deleteResolve", call.database, [schema |-> call.arg], "resolved")
  /\ rt' = IF rt.phase = "deleting" /\ rt.schema = call.arg
           THEN [rt EXCEPT !.phase = "done"]
           ELSE NoRoundTrip
  /\ UNCHANGED <<currentDatabase, request, listRequests, preload, commonData,
                 subscribed, server, nextOid>>
  /\ currentSchemaFollows

\* deleteSchema(schema) whose delete call fails: deleteSchema rejects
DeleteReject(schema, err) ==
  /\ Cardinality(calls) < MaxCalls
  /\ schemasStore' = deleteSchemaRejected(schemasStore, schema, err)
  /\ ev' = Event("deleteReject", schema.database, <<>>, "rejected")
  /\ rt' = NoRoundTrip
  /\ UNCHANGED <<currentDatabase, request, listRequests, preload, commonData,
                 subscribed, server, nextOid, calls>>
  /\ currentSchemaFollows

\* ------------------------------------------------------------------ Next
Next ==
  \/ \E d \in Databases \cup {Undefined} : SetCurrentDatabase(d)
  \/ Subscribe
  \/ Unsubscribe
  \/ Fetch
  \/ \E i \in 1..Len(listRequests) : ServerList(i)
  \/ \E i \in 1..Len(listRequests) : FetchResolve(i)
  \/ \E i \in 1..Len(listRequests), err \in Errors : FetchReject(i, err)
  \/ \E d \in Databases, name \in Names : CreateSchema(d, name)
  \/ \E call \in calls : CreateResolve(call)
  \/ \E d \in Databases, name \in Names, err \in Errors : CreateReject(d, name, err)
  \/ \E schema \in KnownSchemas : DeleteSchema(schema)
  \/ \E call \in calls : DeleteResolve(call)
  \/ \E schema \in KnownSchemas, err \in Errors : DeleteReject(schema, err)

Spec == Init /\ [][Next]_vars

\* ------------------------------------------------- the current schema id
\* currentSchemaId.set(id), done by the routing of the application
SetCurrentSchemaId(id) ==
  /\ id # currentSchemaId
  /\ currentSchemaId' = id
  /\ currentSchema' = currentSchemaDerived(id, schemasStore)
  /\ ev' = Other
  /\ rt' = NoRoundTrip
  /\ UNCHANGED <<currentDatabase, schemasStore, request, listRequests, preload,
                 commonData, subscribed, server, nextOid, calls>>

\* the operations of the module together with the choice of a current schema
NextWithSchema ==
  \/ Next
  \/ \E id \in Oids \cup {Undefined} : SetCurrentSchemaId(id)

SchemaSpec == Init /\ [][NextWithSchema]_vars

\* ---------------------------------------------------------------- claims
LiveRequests == 1..Len(listRequests)

IsFetchDelivery(e) == e.op \in {"fetchResolve", "fetchReject"}

\* C1: once the current database has been switched away from D (the switch
\* handled by the `schemas` store) while a list call for D was pending,
\* neither the success nor the failure of that call changes the cache.
C1_SwitchCancelsPendingFetch ==
  [][(IsFetchDelivery(ev') /\ listRequests[ev'.payload.req].stale)
       => schemasStore' = schemasStore]_vars

\* C2: every write to the cache (list success, list failure, insert of
\* createSchema, removal of deleteSchema) is applied only if the cache's
\* databaseId equals the database of the operation at the moment of the
\* write; otherwise the cache is left unchanged.
C2_EveryMutationGuarded ==
  [][(/\ ev'.op \in {"fetchResolve", "fetchReject", "createResolve", "deleteResolve"}
      /\ schemasStore.databaseId # ev'.database)
       => schemasStore' = schemasStore]_vars

\* the oids of the records of a list response
OidsOf(rawSchemas) == {rawSchemas[n].oid : n \in 1..Len(rawSchemas)}

\* C3: a list call for D that completes successfully without having been
\* cancelled replaces the cache: databaseId = D, status success, and data
\* holds exactly the returned records under their oids.
C3_FetchSuccessReplacesCache ==
  [][ev'.op = "fetchResolve" =>
       LET rawSchemas == listRequests[ev'.payload.req].result IN
       /\ schemasStore'.databaseId = ev'.database
       /\ schemasStore'.requestStatus = Success
       /\ DOMAIN schemasStore'.data = OidsOf(rawSchemas)
       /\ \A n \in 1..Len(rawSchemas) :
            (\A m \in (n + 1)..Len(rawSchemas) : rawSchemas[m].oid # rawSchemas[n].oid)
              => schemasStore'.data[rawSchemas[n].oid] =
                   [oid |-> rawSchemas[n].oid, database |-> ev'.database,
                    name |-> rawSchemas[n].name]]_vars

\* a successful list response has replaced the cache, and an entry for a
\* schema created while the call was pending is not in it
C3_Witness ==
  /\ ev.op = "fetchResolve"
  /\ schemasStore.data # EmptyMap
  /\ calls = {}
  /\ (DOMAIN server[ev.database]) \ (DOMAIN schemasStore.data) # {}

C5_CacheMatchesServer ==
  (/\ ev.op \in {"fetchResolve", "createResolve", "deleteResolve"}
   /\ schemasStore.requestStatus.state = "success"
   /\ schemasStore.databaseId \in Databases
   /\ calls = {}
   /\ LiveRequests = {})
    => DOMAIN schemasStore.data = DOMAIN server[schemasStore.databaseId]

\* C6: a successful createSchema of a schema whose oid is not a key of the
\* cache, followed by a successful deleteSchema of that schema with no other
\* client operation in between, leaves the cache as it was before the create.
C6_CreateDeleteRoundTrip ==
  rt.phase = "done" => schemasStore = rt.before

\* the round trip is complete on a cache that belonged to the database of the
\* schema and held other entries
C6_Witness ==
  /\ rt.phase = "done"
  /\ rt.before.databaseId = rt.schema.database
  /\ rt.before.data # EmptyMap

\* C7: when the add call of createSchema succeeds, the returned schema is
\* put under its oid if the cache belongs to the database of the call, and
\* nothing else changes; otherwise the cache is unchanged.
C7_CreateSuccessFrame ==
  [][ev'.op = "createResolve" =>
       LET schema == ev'.payload.schema IN
       IF schemasStore.databaseId = ev'.database
       THEN /\ schemasStore'.databaseId = schemasStore.databaseId
            /\ schemasStore'.requestStatus = schemasStore.requestStatus
            /\ DOMAIN schemasStore'.data = (DOMAIN schemasStore.data) \cup {schema.oid}
            /\ schemasStore'.data[schema.oid] = schema
            /\ \A o \in (DOMAIN schemasStore.data) \ {schema.oid} :
                 schemasStore'.data[o] = schemasStore.data[o]
       ELSE schemasStore' = schemasStore]_vars

\* a created schema has been put next to another entry of the cache
C7_Witness ==
  /\ ev.op = "createResolve"
  /\ schemasStore.databaseId = ev.database
  /\ ev.payload.schema.oid \in DOMAIN schemasStore.data
  /\ Cardinality(DOMAIN schemasStore.data) > 1

\* C8: when the delete call of deleteSchema succeeds, the entry of the schema
\* is removed if the cache belongs to the database of the schema, and nothing
\* else changes; otherwise the cache is unchanged.
C8_DeleteSuccessFrame ==
  [][ev'.op = "deleteResolve" =>
       LET schema == ev'.payload.schema IN
       IF schemasStore.databaseId = schema.database
       THEN /\ schemasStore'.databaseId = schemasStore.databaseId
            /\ schemasStore'.requestStatus = schemasStore.requestStatus
            /\ DOMAIN schemasStore'.data = (DOMAIN schemasStore.data) \ {schema.oid}
            /\ \A o \in DOMAIN schemasStore'.data :
                 schemasStore'.data[o] = schemasStore.data[o]
       ELSE schemasStore' = schemasStore]_vars

\* a deleted schema has been removed and another entry is still in the cache
C8_Witness ==
  /\ ev.op = "deleteResolve"
  /\ schemasStore.databaseId = ev.payload.schema.database
  /\ ev.payload.schema.oid \notin DOMAIN schemasStore.data
  /\ schemasStore.data # EmptyMap

\* C9: at most one list call is in flight and not cancelled, and it is the
\* most recently issued one, the one held by `request`.
C9_SingleLiveRequest ==
  /\ Cardinality(LiveRequests) <= 1
  /\ \A i \in LiveRequests : i = request

\* a fetch has cancelled the pending list call and issued a new one
C9_Witness ==
  /\ ev.op \in {"fetch", "emit"}
  /\ ev.payload.cancelled
  /\ LiveRequests = {request}

\* C10: when the add call of createSchema or the delete call of deleteSchema
\* fails, the failure reaches the caller and the cache is unchanged.
C10_CreateDeleteFailure ==
  [][ev'.op \in {"createReject", "deleteReject"} =>
       /\ ev'.outcome = "rejected"
       /\ schemasStore' = schemasStore]_vars

\* an add or delete call has failed on a cache that holds entries
C10_Witness ==
  /\ ev.op \in {"createReject", "deleteReject"}
  /\ ev.outcome = "rejected"
  /\ schemasStore.data # EmptyMap

\* C11: every schema of the cache belongs to the database of the cache and is
\* stored under its own oid; a cache without databaseId holds no schema.
C11_CacheEntriesBelong ==
  /\ \A o \in DOMAIN schemasStore.data :
       /\ schemasStore.data[o].oid = o
       /\ schemasStore.data[o].database = schemasStore.databaseId
  /\ schemasStore.databaseId = Undefined => schemasStore.data = EmptyMap

\* the cache of a database other than the current one holds several schemas
\* after a failed fetch
C11_Witness ==
  /\ schemasStore.databaseId \in Databases
  /\ schemasStore.databaseId # currentDatabase
  /\ Cardinality(DOMAIN schemasStore.data) >= 2
  /\ schemasStore.requestStatus.state = "failure"

\* the step issues one list call for `cur`, which becomes `request`; every
\* other pending call was pending before
IssuesListCall(cur) ==
  /\ Len(listRequests') >= 1
  /\ Len(listRequests') <= Len(listRequests) + 1
  /\ listRequests'[Len(listRequests')] = NewRequest(cur)
  /\ request' = Len(listRequests')
  /\ \A j \in 1..(Len(listRequests') - 1) :
       \E i \in LiveRequests : listRequests[i].database = listRequests'[j].database

\* the step issues no list call: every pending call was pending before
IssuesNoListCall ==
  /\ Len(listRequests') <= Len(listRequests)
  /\ \A j \in 1..Len(listRequests') :
       \E i \in LiveRequests : listRequests[i].database = listRequests'[j].database

\* the cache holds exactly the preloaded schemas, as schemas of `cur`
IsPreloadedCache(store, cur) ==
  /\ store.databaseId = cur
  /\ store.requestStatus = Success
  /\ DOMAIN store.data = OidsOf(commonData.schemas)
  /\ \A n \in 1..Len(commonData.schemas) :
       store.data[commonData.schemas[n].oid] =
         [oid |-> commonData.schemas[n].oid, database |-> cur,
          name |-> commonData.schemas[n].name]

\* the `schemas` store handles a value of the current database that differs
\* from the databaseId of the cache
IsMismatch == ev'.op = "emit" /\ schemasStore.databaseId # ev'.database

\* C12 as stated: the first mismatch seen by the `schemas` store seeds the
\* cache from the preloaded data when the current database is the preloaded
\* one, without a list call; the preloaded data is not used again, and every
\* later mismatch issues a list call for the current database.
C12_PreloadOnceThenList ==
  [][/\ ~preload => ~preload'
     /\ IsMismatch =>
          /\ ~preload'
          /\ IF preload /\ ev'.database = commonData.current_database
             THEN IsPreloadedCache(schemasStore', ev'.database) /\ IssuesNoListCall
             ELSE IssuesListCall(ev'.database)]_vars

\* C12 amended: as above, but a mismatch in which there is no current
\* database also counts as a mismatch (it uses up the preloaded data), and it
\* resets the cache to the empty state without issuing a list call.
C12_PreloadOnceThenFetch ==
  [][/\ ~preload => ~preload'
     /\ IsMismatch =>
          /\ ~preload'
          /\ IF preload /\ ev'.database = commonData.current_database
             THEN IsPreloadedCache(schemasStore', ev'.database) /\ IssuesNoListCall
             ELSE IF ev'.database # Undefined
                  THEN IssuesListCall(ev'.database)
                  ELSE schemasStore' = makeEmptySchemasData /\ IssuesNoListCall]_vars

\* the preloaded database becomes current after the first mismatch was seen, so
\* after the preloaded data can no longer be used: its schemas are fetched
C12_Witness ==
  /\ ev.op = "emit"
  /\ ev.branch = "fetch"
  /\ ev.database = commonData.current_database
  /\ ~preload
  /\ schemasStore.databaseId = commonData.current_database
  /\ schemasStore.requestStatus.state = "processing"
  /\ LiveRequests # {}

\* the step runs fetchSchemasForCurrentDatabase, called directly or by the
\* `schemas` store, with ev'.database the current database it reads
IsFetchStart(e) ==
  e.op = "fetch" \/ (e.op = "emit" /\ e.branch \in {"fetch", "refetch"})

\* C13: a call of fetchSchemasForCurrentDatabase updates the cache before any
\* response: without a current database the cache becomes the empty cache and
\* no list call is issued; with the database of the cache the status becomes
\* processing and databaseId and data stay; with another database the cache
\* becomes that database's, processing and empty. In the last two cases
\* exactly one list call for the current database is issued.
C13_FetchStartFrame ==
  [][IsFetchStart(ev') =>
       IF ev'.database = Undefined
       THEN /\ schemasStore' = [databaseId |-> Undefined,
                                requestStatus |-> Success,
                                data |-> EmptyMap]
            /\ IssuesNoListCall
       ELSE /\ IF schemasStore.databaseId = ev'.database
               THEN /\ schemasStore'.requestStatus = Processing
                    /\ schemasStore'.databaseId = schemasStore.databaseId
                    /\ schemasStore'.data = schemasStore.data
               ELSE schemasStore' = [databaseId |-> ev'.database,
                                     requestStatus |-> Processing,
                                     data |-> EmptyMap]
            /\ IssuesListCall(ev'.database)]_vars

\* a fetch was started for the database of a cache that holds schemas
C13_Witness ==
  /\ ev.op = "fetch"
  /\ ev.database = schemasStore.databaseId
  /\ schemasStore.requestStatus = Processing
  /\ schemasStore.data # EmptyMap
  /\ Len(listRequests) = 1
  /\ listRequests[1] = NewRequest(ev.database)

\* C14: whenever the status of the cache is processing, a list call that was
\* not cancelled is pending and it was issued for the databaseId of the cache.
C14_ProcessingHasRequest ==
  schemasStore.requestStatus.state = "processing" =>
    \E i \in LiveRequests :
      /\ i = request
      /\ listRequests[i].database = schemasStore.databaseId

\* the cache is processing after a fetch that cancelled the pending call of
\* an earlier fetch
C14_Witness ==
  /\ schemasStore.requestStatus.state = "processing"
  /\ IsFetchStart(ev)
  /\ ev.payload.cancelled
  /\ listRequests[request].database = schemasStore.databaseId

\* C16: the `schemas` store starts a fetch only when the current database
\* emits. On an emission of the database of the cache it starts one exactly
\* when the status is failure; when the status is success or processing the
\* cache, `request` and the pending list call are left alone. A step that is
\* neither an emission nor a direct call of fetchSchemasForCurrentDatabase (a
\* failure of a list call included) issues no list call and never turns the
\* status to processing.
C16_FetchOnlyOnEmission ==
  [][/\ (ev'.op = "emit" /\ schemasStore.databaseId = ev'.database) =>
          IF schemasStore.requestStatus.state = "failure"
          THEN /\ schemasStore'.requestStatus = Processing
               /\ IssuesListCall(ev'.database)
          ELSE /\ schemasStore' = schemasStore
               /\ request' = request
               /\ Len(listRequests') = Len(listRequests)
               /\ \A i \in LiveRequests :
                    /\ listRequests'[i].database = listRequests[i].database
                    /\ listRequests'[i].status = listRequests[i].status
                    /\ listRequests'[i].result = listRequests[i].result
     /\ ev'.op \notin {"emit", "fetch"} =>
          /\ IssuesNoListCall
          /\ schemasStore'.requestStatus.state = "processing"
               => schemasStore.requestStatus.state = "processing"]_vars

\* the database of the cache is emitted while its fetch is pending: the fetch
\* goes on
C16_Witness ==
  /\ ev.op = "emit"
  /\ ev.branch = "none"
  /\ ev.database = schemasStore.databaseId
  /\ schemasStore.requestStatus.state = "processing"
  /\ request \in LiveRequests
  /\ listRequests[request].database = ev.database

\* ------------------------------------------------------------- fairness
\* the server answers every pending list call
ListAnswered == \E i \in 1..Len(listRequests) : ServerList(i)

\* the answer of a pending list call is delivered to its continuation
ListDelivered == \E i \in 1..Len(listRequests) : FetchResolve(i)

\* every list call that is not cancelled resolves, unless it rejects
FairSpec == Spec /\ WF_vars(ListAnswered) /\ WF_vars(ListDelivered)

\* the step switches the current database, delivers its value to a new
\* subscriber, or calls fetchSchemasForCurrentDatabase
SwitchOrFetch ==
  currentDatabase' # currentDatabase \/ ev'.op \in {"emit", "fetch"}

\* C15: when the switches of the current database and the calls of
\* fetchSchemasForCurrentDatabase eventually stop, every state whose status is
\* processing is followed by a state whose status is success or failure.
C15_ProcessingSettles ==
  <>[][~SwitchOrFetch]_vars =>
    ((schemasStore.requestStatus.state = "processing")
       ~> (schemasStore.requestStatus.state \in {"success", "failure"}))

\* the cache is processing and the answer of its list call is on its way
C15_Witness ==
  /\ schemasStore.requestStatus.state = "processing"
  /\ request \in LiveRequests
  /\ listRequests[request].status = "ok"
  /\ listRequests[request].result # <<>>

\* C17: currentSchema is the entry of the cache under currentSchemaId when
\* currentSchemaId is set and is a key of the cache, and is undefined
\* otherwise.
C17_CurrentSchemaFollowsCache ==
  currentSchema =
    IF currentSchemaId # Undefined /\ currentSchemaId \in DOMAIN schemasStore.data
    THEN schemasStore.data[currentSchemaId]
    ELSE NoSchema

\* createSchema has just put the schema of currentSchemaId into the cache, so
\* currentSchema is defined again
C17_Witness ==
  /\ ev.op = "createResolve"
  /\ ev.payload.schema.oid = currentSchemaId
  /\ ev.database = schemasStore.databaseId
  /\ currentSchema = ev.payload.schema

====
